---- MODULE Spec2Model ----
(***************************************************************************)
(* Model of the Network unit (src/src/network.unit.ts): one request()      *)
(* composes rate-limit admission, per-URL circuit admission, a bounded     *)
(* retry loop around the transport call, per-attempt proxy acquisition     *)
(* and blame, and outcome recording into the URL's circuit.                *)
(*                                                                         *)
(* JavaScript runs request() calls as cooperative tasks: the code between  *)
(* two awaits is one atomic step.  Every action below is one such step of  *)
(* one call (the resolution of the await it is suspended on, and all the   *)
(* synchronous code that follows up to the next await).                    *)
(*                                                                         *)
(* The collaborators (@synet/circuit-breaker, @synet/retry,                *)
(* @synet/rate-limiter, @synet/proxy, @synet/http) are not part of the     *)
(* sources; their behaviour is taken from the specification and the        *)
(* README, and how Network calls them is taken from the code.              *)
(***************************************************************************)
EXTENDS Integers, Sequences, FiniteSets, TLC

VARIABLES
    config,           \* the NetworkConfig handed to Network.create
    props,            \* NetworkProps fixed at creation (retryUnit, rateLimiter, proxy, baseUrl)
    circuitBreakers,  \* props.circuitBreakers: Map<url, CircuitBreaker>
    limiter,          \* the rate limiter's admissions in the current window, per key
    failedProxies,    \* the proxy pool: connections reported failed
    proc,             \* the request() calls: position and locals of each
    workload,         \* the callers: who calls request(), and with which URLs
    budget,           \* request() calls the callers have yet to make
    admitted,         \* per target host: requests the limiter admitted in this window
    streak,           \* per URL: failed request() outcomes since the last success or reset
    retryStats        \* the retry unit's statistics (props.retryUnit.getStats())

vars == <<config, props, circuitBreakers, limiter, failedProxies, proc, workload,
          budget, admitted, streak, retryStats>>

-----------------------------------------------------------------------------
(* Bounds of the model *)

\* request() calls made in one behaviour: of a workload that drives one
\* circuit through its states, and of one that mixes callers and URLs
DeepRequests == 6
ShallowRequests == 3
ProbeRequests == 7
MaxAttemptIndex == 6

\* the breaker's open timeout, in clock ticks
TimeoutTicks == 2

\* concurrent callers
Procs == {"r1", "r2"}

-----------------------------------------------------------------------------
(* Program constants *)

\* @synet/circuit-breaker default used by CircuitBreaker.create({ url })
DefaultFailureThreshold == 5

\* the options request() passes to retryUnit.retry
CallMaxAttempts == 3
CallBaseDelay == 1000
CallMaxDelay == 10000
CallBackoffMultiplier == 2

-----------------------------------------------------------------------------
(* URLs.  A URL string is represented by what `new URL` reads from it: whether  *)
(* it is absolute, its host (absolute only), its path and its query string.    *)

ApiHost == "api.example.com"
LocalHost == "localhost"
NoBase == "none"

UsersRel == [abs |-> FALSE, host |-> "", path |-> "/users", query |-> ""]
OrdersAbs == [abs |-> TRUE, host |-> ApiHost, path |-> "/orders", query |-> ""]

\* other spellings of the /users endpoint of api.example.com
UsersAbs == [abs |-> TRUE, host |-> ApiHost, path |-> "/users", query |-> ""]
UsersQuery == [abs |-> FALSE, host |-> "", path |-> "/users", query |-> "page=2"]

Urls == {UsersRel, OrdersAbs, UsersAbs, UsersQuery}

Hosts == {ApiHost, LocalHost}

\* request(): fullUrl = new URL(url).href, or, when that throws (a relative
\* url), new URL(url, baseUrl || 'http://localhost').href
FullUrl(url, baseUrl) ==
    IF url.abs THEN [host |-> url.host, path |-> url.path, query |-> url.query]
    ELSE [host |-> IF baseUrl = NoBase THEN LocalHost ELSE baseUrl,
          path |-> url.path, query |-> url.query]

\* variant of RateLimitKey: a relative URL is resolved against the localhost
\* fallback even when a baseUrl is configured
RateLimitKey_IgnoresBase(url, baseUrl) ==
    IF url.abs THEN url.host ELSE LocalHost

\* variant of RateLimitKey: one fixed key for every request
RateLimitKey_SingleBucket(url, baseUrl) == ApiHost

\* request(): context = { key: new URL(fullUrl).hostname, url: fullUrl }
RateLimitKey(url, baseUrl) == FullUrl(url, baseUrl).host

\* the host a request to url is sent to
TargetHost(url) ==
    IF url.abs THEN url.host
    ELSE IF config.baseUrl = NoBase THEN LocalHost ELSE config.baseUrl

\* variant of CircuitKey: the absolute URL of the endpoint, query dropped
CircuitKey_Normalized(url) ==
    [abs |-> TRUE, host |-> TargetHost(url), path |-> url.path, query |-> ""]

\* request(): getCircuitBreaker(url) - the map is keyed by the url argument
\* as it was passed
CircuitKey(url) == url

-----------------------------------------------------------------------------
(* Transport outcomes and their classification *)

FailureKinds == {"ConnectionError", "ProxyAuthError", "ServerError",
                 "RateLimitedUpstream", "ClientError"}
Kinds == FailureKinds \cup {"Success"}

\* marker: the error message contains one of the substrings httpOperation
\* looks for (ECONNREFUSED, ETIMEDOUT, ENOTFOUND, proxy, ECONNRESET, 407,
\* Invalid Auth)
TransportOutcomes ==
    {[kind |-> "Success", marker |-> FALSE]}
    \cup {[kind |-> k, marker |-> m] : k \in FailureKinds, m \in BOOLEAN}

\* errors the pool's failed(connection) call may throw instead of the
\* transport's: one the retry loop retries, one it does not
PoolErrors == {"PoolUnavailable", "PoolRejected"}

\* ErrorClassifier: the retryable column
Retryable(kind) == kind \in {"ConnectionError", "ProxyAuthError", "ServerError",
                             "RateLimitedUpstream", "PoolUnavailable"}

\* httpOperation: isProxyError, decided on the message text
IsProxyError(outcome) == outcome.marker

-----------------------------------------------------------------------------
(* Circuit breaker (@synet/circuit-breaker) *)

NeverFailed == -1

\* CircuitBreaker.create({ url }): no threshold is passed, the default applies
CircuitBreakerCreate(url) ==
    [state |-> "CLOSED", failures |-> 0, successCount |-> 0,
     sinceFailure |-> NeverFailed, failureThreshold |-> DefaultFailureThreshold]

\* variant of CanProceed: a HALF_OPEN circuit admits every request
CanProceed_HalfOpenAdmits(c) ==
    IF c.state \in {"CLOSED", "HALF_OPEN"} THEN [ok |-> TRUE, circuit |-> c]
    ELSE IF c.sinceFailure >= TimeoutTicks
         THEN [ok |-> TRUE, circuit |-> [c EXCEPT !.state = "HALF_OPEN"]]
         ELSE [ok |-> FALSE, circuit |-> c]

\* canProceed(): the admission check, with the lazy OPEN -> HALF_OPEN move.
\* The request it admits from OPEN is the probe; HALF_OPEN admits no other.
CanProceed(c) ==
    IF c.state = "CLOSED" THEN [ok |-> TRUE, circuit |-> c]
    ELSE IF c.state = "OPEN" /\ c.sinceFailure >= TimeoutTicks
         THEN [ok |-> TRUE, circuit |-> [c EXCEPT !.state = "HALF_OPEN"]]
         ELSE [ok |-> FALSE, circuit |-> c]

\* variant of RecordSuccess: a success counts in CLOSED and HALF_OPEN only;
\* an OPEN circuit waits for its timeout
RecordSuccess_IgnoredWhenOpen(c) ==
    IF c.state = "CLOSED"
    THEN [c EXCEPT !.failures = 0, !.successCount = @ + 1]
    ELSE IF c.state = "OPEN" THEN c
    ELSE [c EXCEPT !.state = "CLOSED", !.failures = 0, !.successCount = 0]

RecordSuccess(c) ==
    IF c.state = "CLOSED"
    THEN [c EXCEPT !.failures = 0, !.successCount = @ + 1]
    ELSE [c EXCEPT !.state = "CLOSED", !.failures = 0, !.successCount = 0]

\* variant of RecordFailure: a failure in HALF_OPEN reopens the circuit but
\* keeps the clock of the failure that opened it
RecordFailure_KeepsClock(c) ==
    LET f == c.failures + 1 IN
    [c EXCEPT !.failures = f,
              !.sinceFailure = IF c.state = "HALF_OPEN" THEN @ ELSE 0,
              !.state = IF c.state = "CLOSED" /\ f < c.failureThreshold
                        THEN "CLOSED" ELSE "OPEN"]

RecordFailure(c) ==
    LET f == c.failures + 1 IN
    [c EXCEPT !.failures = f,
              !.sinceFailure = 0,
              !.state = IF c.state = "CLOSED" /\ f < c.failureThreshold
                        THEN "CLOSED" ELSE "OPEN"]

ResetCircuit(c) ==
    [c EXCEPT !.state = "CLOSED", !.failures = 0, !.successCount = 0,
              !.sinceFailure = NeverFailed]

\* variant of GetCircuitBreaker: a new breaker is made for every request
GetCircuitBreaker_AlwaysCreates(cbs, url) ==
    (url :> CircuitBreakerCreate(url)) @@ cbs

\* getCircuitBreaker(url): the map after the lazy creation
GetCircuitBreaker(cbs, url) ==
    IF url \in DOMAIN cbs THEN cbs ELSE cbs @@ (url :> CircuitBreakerCreate(url))

\* getCircuitStats()
GetCircuitStats == circuitBreakers

-----------------------------------------------------------------------------
(* Retry (@synet/retry) *)

RECURSIVE Pow(_, _)
Pow(b, e) == IF e = 0 THEN 1 ELSE b * Pow(b, e - 1)

Min(a, b) == IF a <= b THEN a ELSE b

\* the options of the call override the unit's configuration
MergeRetryOptions(unit, options) ==
    [maxAttempts |-> options.maxAttempts,
     baseDelay |-> options.baseDelay,
     maxDelay |-> options.maxDelay,
     backoffMultiplier |-> options.backoffMultiplier,
     jitter |-> unit.jitter]

\* request(): the options literal of the retryUnit.retry call
RetryCallOptions ==
    [maxAttempts |-> CallMaxAttempts, baseDelay |-> CallBaseDelay,
     maxDelay |-> CallMaxDelay, backoffMultiplier |-> CallBackoffMultiplier]

\* the policy the retry loop of request() runs under
RetryPolicy == MergeRetryOptions(props.retryUnit, RetryCallOptions)

\* variant of BackoffDelay: the exponent is the attempt index less one
BackoffDelay_ExponentFromOne(policy, i) ==
    Min(policy.baseDelay * Pow(policy.backoffMultiplier, i - 1), policy.maxDelay)

\* delay before attempt i >= 2, without jitter
BackoffDelay(policy, i) ==
    Min(policy.baseDelay * Pow(policy.backoffMultiplier, i - 2), policy.maxDelay)

\* the delays the loop may wait before attempt i
Delays(policy, i) ==
    IF policy.jitter
    THEN {BackoffDelay(policy, i), BackoffDelay(policy, i) \div 2}
    ELSE {BackoffDelay(policy, i)}

\* Retry.create(): the statistics of a new retry unit
RetryStatsCreate ==
    [totalOperations |-> 0, successfulOperations |-> 0, failedOperations |-> 0,
     totalRetries |-> 0]

\* variant of RetrySucceeded: every attempt counts as a retry
RetrySucceeded_CountsAttempts(st, attempts) ==
    [st EXCEPT !.totalOperations = @ + 1, !.successfulOperations = @ + 1,
               !.totalRetries = @ + attempts]

\* retry(): the operation resolved on attempt `attempts`
RetrySucceeded(st, attempts) ==
    [st EXCEPT !.totalOperations = @ + 1, !.successfulOperations = @ + 1,
               !.totalRetries = @ + (attempts - 1)]

\* retry(): the loop gave up after `attempts` attempts
RetryFailed(st, attempts) ==
    [st EXCEPT !.totalOperations = @ + 1, !.failedOperations = @ + 1,
               !.totalRetries = @ + (attempts - 1)]

\* getRetryStats(): retryUnit.getStats()
GetRetryStats == retryStats

-----------------------------------------------------------------------------
(* Proxy pool (@synet/proxy) *)

Proxies == {"px1", "px2"}
NoProxy == "none"

-----------------------------------------------------------------------------
(* Configurations *)

PlainConfig ==
    [baseUrl |-> ApiHost, circuitBreaker |-> [failureThreshold |-> 2],
     retry |-> [maxAttempts |-> 3, baseDelay |-> 100, maxDelay |-> 10000,
                backoffMultiplier |-> 2, jitter |-> FALSE],
     hasRateLimiter |-> FALSE, rateLimit |-> 1, hasProxy |-> FALSE]

ProxyConfig ==
    [baseUrl |-> ApiHost, circuitBreaker |-> [failureThreshold |-> 2],
     retry |-> [maxAttempts |-> 2, baseDelay |-> 500, maxDelay |-> 5000,
                backoffMultiplier |-> 2, jitter |-> FALSE],
     hasRateLimiter |-> FALSE, rateLimit |-> 1, hasProxy |-> TRUE]

LimiterConfig ==
    [baseUrl |-> ApiHost, circuitBreaker |-> [failureThreshold |-> 5],
     retry |-> [maxAttempts |-> 4, baseDelay |-> 1000, maxDelay |-> 8000,
                backoffMultiplier |-> 2, jitter |-> FALSE],
     hasRateLimiter |-> TRUE, rateLimit |-> 1, hasProxy |-> FALSE]

ProxyLimiterConfig ==
    [baseUrl |-> NoBase, circuitBreaker |-> [failureThreshold |-> 3],
     retry |-> [maxAttempts |-> 3, baseDelay |-> 100, maxDelay |-> 10000,
                backoffMultiplier |-> 2, jitter |-> FALSE],
     hasRateLimiter |-> TRUE, rateLimit |-> 1, hasProxy |-> TRUE]

NetworkConfigs == {PlainConfig, ProxyConfig, LimiterConfig, ProxyLimiterConfig}

\* who calls request(), with which URLs, how many times. The retry unit's
\* statistics are written by request() and read by no step of it, so they
\* are kept in the state only where `stats` says so, and left out (at their
\* initial value) in the other workloads
OneEndpoint == [callers |-> Procs, targets |-> {UsersRel},
                requests |-> DeepRequests, stats |-> FALSE]
OneCaller == [callers |-> {"r1"}, targets |-> {UsersRel, OrdersAbs},
              requests |-> DeepRequests, stats |-> FALSE]
Mixed == [callers |-> Procs, targets |-> {UsersRel, OrdersAbs},
          requests |-> ShallowRequests, stats |-> FALSE]
Solo == [callers |-> {"r1"}, targets |-> {UsersRel, OrdersAbs},
         requests |-> ShallowRequests, stats |-> FALSE]
Forms == [callers |-> {"r1"}, targets |-> {UsersRel, UsersAbs, UsersQuery},
          requests |-> ShallowRequests, stats |-> FALSE]
Probe == [callers |-> Procs, targets |-> {UsersRel},
          requests |-> ProbeRequests, stats |-> FALSE]
Counted == [callers |-> Procs, targets |-> {UsersRel, OrdersAbs},
            requests |-> ShallowRequests, stats |-> TRUE]
Pair == [callers |-> Procs, targets |-> {UsersRel},
         requests |-> ShallowRequests, stats |-> FALSE]
CountedSolo == [callers |-> {"r1"}, targets |-> {UsersRel, OrdersAbs},
                requests |-> ShallowRequests, stats |-> TRUE]
CountedDeep == [callers |-> {"r1"}, targets |-> {UsersRel},
                requests |-> DeepRequests, stats |-> TRUE]

Workloads == {OneEndpoint, OneCaller, Mixed}

\* the configurations and workloads explored
Scenarios ==
    ({PlainConfig, ProxyConfig, LimiterConfig} \X Workloads)
    \cup {<<ProxyLimiterConfig, Solo>>, <<PlainConfig, Forms>>}

\* the configurations and workloads explored for the probing of a circuit
\* that was OPEN: enough requests to one URL to open it, probe it, and
\* contend with the probe
ProbeScenarios ==
    {<<PlainConfig, Probe>>, <<ProxyConfig, Probe>>, <<LimiterConfig, Solo>>}

\* the configurations and workloads explored with the retry unit's
\* statistics in the state
StatsScenarios ==
    {<<PlainConfig, Counted>>, <<ProxyConfig, CountedSolo>>,
     <<LimiterConfig, CountedSolo>>, <<PlainConfig, CountedDeep>>}

\* the configurations and workloads explored for the completion of calls
LiveScenarios == {<<ProxyLimiterConfig, Solo>>, <<PlainConfig, Pair>>}

\* Network.create(config)
NetworkCreate(c) ==
    [baseUrl |-> c.baseUrl, retryUnit |-> c.retry,
     hasRateLimiter |-> c.hasRateLimiter, rateLimit |-> c.rateLimit,
     hasProxy |-> c.hasProxy, id |-> "network"]

-----------------------------------------------------------------------------
(* request() calls *)

Idle ==
    [pc |-> "idle", url |-> UsersRel, key |-> "none", calls |-> 0,
     acquires |-> 0, px |-> NoProxy,
     blocked |-> FALSE, delays |-> <<>>, lastError |-> "none",
     outcome |-> "none", retryAfter |-> 0]

\* build(): the capabilities registered under the unit's id
Capabilities == {"request", "getStats"}

\* teach(): the teaching contract (unitId is dna.id, given in create())
Teach == [unitId |-> props.id, capabilities |-> Capabilities]

\* the Network right after Network.create(sc[1]), to be used as sc[2] says
Created(sc) ==
    /\ config = sc[1]
    /\ workload = sc[2]
    /\ props = NetworkCreate(config)
    /\ circuitBreakers = <<>>
    /\ limiter = [h \in Hosts |-> 0]
    /\ failedProxies = {}
    /\ proc = [p \in Procs |-> Idle]
    /\ budget = workload.requests
    /\ admitted = [h \in Hosts |-> 0]
    /\ streak = [u \in Urls |-> 0]
    /\ retryStats = RetryStatsCreate

Init == \E sc \in Scenarios : Created(sc)

InitProbe == \E sc \in ProbeScenarios : Created(sc)

InitStats == \E sc \in StatsScenarios : Created(sc)

InitLive == \E sc \in LiveScenarios : Created(sc)

\* A settled request() promise runs its caller's continuation in the same
\* microtask checkpoint, before any other callback or timer: no other step is
\* taken while a call is "done"
NoneDone == \A q \in Procs : proc[q].pc # "done"

\* the protocol values of a pool connection that httpOperation's conversion
\* accounts for, and those the transport's ProxyConnection accepts
PoolProtocols == {"http", "https", "socks5"}
TransportProtocols == {"http", "socks5"}

\* the connections a pool may hand out; "none" is an absent optional field
PoolConnections ==
    [id : Proxies, host : {"gate.proxy.example"}, port : {8080},
     username : {"none", "alice"}, password : {"none", "s3cret"},
     protocol : PoolProtocols, country : {"none", "de"}]

\* the connection the pool holds under each id
PoolConnection(px) ==
    IF px = "px1"
    THEN [id |-> px, host |-> "gate.proxy.example", port |-> 8080,
          username |-> "alice", password |-> "s3cret", protocol |-> "https",
          country |-> "de"]
    ELSE [id |-> px, host |-> "gate.proxy.example", port |-> 8080,
          username |-> "none", password |-> "none", protocol |-> "socks5",
          country |-> "none"]

\* variant of ToProxyConnection: the pool's connection is passed on as it is
ToProxyConnection_Structural(c) == c

\* httpOperation: the pool's connection in the shape of the transport's
\* ProxyConnection
ToProxyConnection(c) ==
    [id |-> c.id, host |-> c.host, port |-> c.port, username |-> c.username,
     password |-> c.password,
     protocol |-> IF c.protocol = "https" THEN "http" ELSE c.protocol,
     country |-> c.country]

\* httpOperation: httpRequest.proxy of the attempt r has in flight
HttpRequestProxy(r) ==
    IF r.px = NoProxy THEN "none" ELSE ToProxyConnection(PoolConnection(r.px))

\* proxy.get(): the connections it may resolve with; NoProxy when it throws
\* because the pool has none left
ProxyGet(failed) ==
    IF Proxies \subseteq failed THEN {NoProxy} ELSE Proxies \ failed

\* proxy.failed(connection)
ProxyFailed(failed, px) == failed \cup {px}

\* variant of BeginAttempt: a connection is acquired for the first attempt of
\* a request only
BeginAttempt_AcquiresPerRequest(r, x) ==
    [r EXCEPT !.pc = "http", !.calls = @ + 1, !.lastError = "none",
              !.acquires = IF props.hasProxy /\ r.calls = 0 THEN @ + 1 ELSE @,
              !.px = IF props.hasProxy /\ r.calls = 0 THEN x ELSE NoProxy]

\* httpOperation, from its start to `await httpUnit.request(httpRequest)`:
\* with a proxy configured it gets a connection x first (proceeding without
\* one when get() throws), then the transport call is issued.  The pool's
\* get() and failed() touch the pool only, so their awaits are folded into the
\* step that calls them.
BeginAttempt(r, x) ==
    [r EXCEPT !.pc = "http", !.calls = @ + 1, !.lastError = "none",
              !.acquires = IF props.hasProxy THEN @ + 1 ELSE @,
              !.px = IF props.hasProxy THEN x ELSE NoProxy]

\* variant of CircuitBlocks: the proxy is not consulted
CircuitBlocks_IgnoresProxy(ok) == ~ok

\* request(): an admission check that fails blocks the request only when no
\* proxy is configured
CircuitBlocks(ok) == ~ok /\ ~props.hasProxy

\* variant of Admission: a request the circuit rejects is recorded in it as
\* a failure
Admission_RejectionCounts(p, r) ==
    LET cbs == GetCircuitBreaker(circuitBreakers, CircuitKey(r.url))
        adm == CanProceed(cbs[CircuitKey(r.url)])
    IN IF CircuitBlocks(adm.ok)
       THEN /\ circuitBreakers' =
                 [cbs EXCEPT ![CircuitKey(r.url)] = RecordFailure(adm.circuit)]
            /\ proc' = [proc EXCEPT ![p] =
                          [r EXCEPT !.pc = "done", !.blocked = TRUE,
                                    !.outcome = "CircuitOpen"]]
       ELSE /\ circuitBreakers' = [cbs EXCEPT ![CircuitKey(r.url)] = adm.circuit]
            /\ \E x \in ProxyGet(failedProxies) :
                  proc' = [proc EXCEPT ![p] =
                             BeginAttempt([r EXCEPT !.blocked = ~adm.ok,
                                                    !.delays = <<0>>], x)]

\* request(), from getCircuitBreaker(url) to the first await of the retry loop
Admission(p, r) ==
    LET cbs == GetCircuitBreaker(circuitBreakers, CircuitKey(r.url))
        adm == CanProceed(cbs[CircuitKey(r.url)])
    IN /\ circuitBreakers' = [cbs EXCEPT ![CircuitKey(r.url)] = adm.circuit]
       /\ IF CircuitBlocks(adm.ok)
          THEN proc' = [proc EXCEPT ![p] =
                          [r EXCEPT !.pc = "done", !.blocked = TRUE,
                                    !.outcome = "CircuitOpen"]]
          ELSE \E x \in ProxyGet(failedProxies) :
                  proc' = [proc EXCEPT ![p] =
                             BeginAttempt([r EXCEPT !.blocked = ~adm.ok,
                                                    !.delays = <<0>>], x)]

\* request(url) is called
Request(p, url) ==
    /\ NoneDone
    /\ proc[p].pc = "idle"
    /\ p \in workload.callers
    /\ url \in workload.targets
    /\ budget > 0
    /\ budget' = budget - 1
    /\ LET r == [Idle EXCEPT !.url = url] IN
       IF props.hasRateLimiter
       THEN /\ proc' = [proc EXCEPT ![p] =
                          [r EXCEPT !.pc = "rateCheck",
                                    !.key = RateLimitKey(url, props.baseUrl)]]
            /\ UNCHANGED circuitBreakers
       ELSE Admission(p, r)
    /\ UNCHANGED <<config, props, limiter, failedProxies, workload, admitted,
                   streak, retryStats>>

\* the rate limiter's check(context): one window of `limit` admissions per key
RateLimiterCheck(lim, key, limit) ==
    IF lim[key] < limit
    THEN [allowed |-> TRUE, retryAfter |-> 0,
          limiter |-> [lim EXCEPT ![key] = @ + 1]]
    ELSE [allowed |-> FALSE, retryAfter |-> 1, limiter |-> lim]

\* variant of RateLimitResolve: the circuit of the URL is looked up before the
\* limiter's answer is acted on
RateLimitResolve_CircuitFirst(p) ==
    /\ NoneDone
    /\ proc[p].pc = "rateCheck"
    /\ LET r == proc[p]
           res == RateLimiterCheck(limiter, r.key, props.rateLimit)
       IN /\ limiter' = res.limiter
          /\ admitted' = IF res.allowed
                         THEN [admitted EXCEPT ![TargetHost(r.url)] = @ + 1]
                         ELSE admitted
          /\ IF res.allowed
             THEN Admission(p, r)
             ELSE /\ proc' = [proc EXCEPT ![p] =
                                [r EXCEPT !.pc = "done",
                                          !.outcome = "RateLimitExceeded",
                                          !.retryAfter = res.retryAfter]]
                  /\ circuitBreakers' = GetCircuitBreaker(circuitBreakers,
                                                          CircuitKey(r.url))
    /\ UNCHANGED <<config, props, failedProxies, workload, budget, streak,
                   retryStats>>

\* variant of RateLimitResolve: the circuit is asked first, and a request it
\* rejects takes nothing from the limiter
RateLimitResolve_CircuitBeforeLimiter(p) ==
    /\ NoneDone
    /\ proc[p].pc = "rateCheck"
    /\ LET r == proc[p]
           res == RateLimiterCheck(limiter, r.key, props.rateLimit)
           cbs == GetCircuitBreaker(circuitBreakers, CircuitKey(r.url))
           rejects == CircuitBlocks(CanProceed(cbs[CircuitKey(r.url)]).ok)
       IN /\ limiter' = IF rejects THEN limiter ELSE res.limiter
          /\ admitted' = IF res.allowed /\ ~rejects
                         THEN [admitted EXCEPT ![TargetHost(r.url)] = @ + 1]
                         ELSE admitted
          /\ IF res.allowed \/ rejects
             THEN Admission(p, r)
             ELSE /\ proc' = [proc EXCEPT ![p] =
                                [r EXCEPT !.pc = "done",
                                          !.outcome = "RateLimitExceeded",
                                          !.retryAfter = res.retryAfter]]
                  /\ UNCHANGED circuitBreakers
    /\ UNCHANGED <<config, props, failedProxies, workload, budget, streak,
                   retryStats>>

\* request(): `await rateLimiter.check(context)` resolves
RateLimitResolve(p) ==
    /\ NoneDone
    /\ proc[p].pc = "rateCheck"
    /\ LET r == proc[p]
           res == RateLimiterCheck(limiter, r.key, props.rateLimit)
       IN /\ limiter' = res.limiter
          /\ admitted' = IF res.allowed
                         THEN [admitted EXCEPT ![TargetHost(r.url)] = @ + 1]
                         ELSE admitted
          /\ IF res.allowed
             THEN Admission(p, r)
             ELSE /\ proc' = [proc EXCEPT ![p] =
                                [r EXCEPT !.pc = "done",
                                          !.outcome = "RateLimitExceeded",
                                          !.retryAfter = res.retryAfter]]
                  /\ UNCHANGED circuitBreakers
    /\ UNCHANGED <<config, props, failedProxies, workload, budget, streak,
                   retryStats>>

\* request(): `await rateLimiter.check(context)` rejects: nothing catches the
\* limiter's error, the caller gets it as thrown
RateLimitThrows(p) ==
    /\ NoneDone
    /\ proc[p].pc = "rateCheck"
    /\ proc' = [proc EXCEPT ![p] = [@ EXCEPT !.pc = "done",
                                             !.outcome = "LimiterError"]]
    /\ UNCHANGED <<config, props, circuitBreakers, limiter, failedProxies,
                   workload, budget, admitted, streak, retryStats>>

\* variant of RequestSucceeded: the success is not recorded
RequestSucceeded_NotRecorded(cbs, url) == cbs

\* variant of RequestFailed: the failure is recorded in every circuit
RequestFailed_AllCircuits(cbs, url) ==
    [u \in DOMAIN cbs |-> RecordFailure(cbs[u])]

\* variant of RequestFailed: the failure is not recorded
RequestFailed_NotRecorded(cbs, url) == cbs

\* request(): retryUnit.retry resolved - circuit.recordSuccess()
RequestSucceeded(cbs, url) == [cbs EXCEPT ![url] = RecordSuccess(@)]

\* variant of RequestFailed: the failure is not recorded when another call to
\* the URL is suspended at an await
RequestFailed_LostWhenConcurrent(cbs, url) ==
    IF Cardinality({q \in Procs : /\ proc[q].pc \in {"http", "delay"}
                                  /\ CircuitKey(proc[q].url) = url}) >= 2
    THEN cbs
    ELSE [cbs EXCEPT ![url] = RecordFailure(@)]

\* request(): retryUnit.retry rejected - circuit.recordFailure()
RequestFailed(cbs, url) == [cbs EXCEPT ![url] = RecordFailure(@)]

\* variant of Blames: decided on the message text alone
Blames_MessageOnly(o, px) == IsProxyError(o)

\* variant of Blames: a report is made also when the attempt got no
\* connection from the pool
Blames_WithoutConnection(o, px) == IsProxyError(o) /\ props.hasProxy

\* httpOperation: the connection of a failed attempt is reported to the pool
Blames(o, px) == IsProxyError(o) /\ px # NoProxy /\ props.hasProxy

\* variant of AfterFailure: the loop loses count of its attempts, so that a
\* retryable error is retried without end
AfterFailure_Unbounded(p, r, kind) ==
    IF Retryable(kind)
    THEN /\ proc' = [proc EXCEPT ![p] =
                       [r EXCEPT !.pc = "delay", !.px = NoProxy,
                                 !.lastError = kind, !.calls = Min(@, 2)]]
         /\ UNCHANGED <<circuitBreakers, streak, retryStats>>
    ELSE /\ proc' = [proc EXCEPT ![p] =
                       [r EXCEPT !.pc = "done", !.px = NoProxy,
                                 !.lastError = kind,
                                 !.outcome = "RetriesExhausted"]]
         /\ circuitBreakers' = RequestFailed(circuitBreakers, CircuitKey(r.url))
         /\ streak' = [streak EXCEPT ![r.url] = @ + 1]
         /\ retryStats' = IF workload.stats
                          THEN RetryFailed(retryStats, r.calls) ELSE retryStats

\* variant of AfterFailure: every error is retried while attempts remain
AfterFailure_RetriesEveryError(p, r, kind) ==
    IF r.calls < RetryPolicy.maxAttempts
    THEN /\ \E d \in Delays(RetryPolicy, r.calls + 1) :
               proc' = [proc EXCEPT ![p] =
                          [r EXCEPT !.pc = "delay", !.px = NoProxy,
                                    !.lastError = kind,
                                    !.delays = Append(@, d)]]
         /\ UNCHANGED <<circuitBreakers, streak, retryStats>>
    ELSE /\ proc' = [proc EXCEPT ![p] =
                       [r EXCEPT !.pc = "done", !.px = NoProxy,
                                 !.lastError = kind,
                                 !.outcome = "RetriesExhausted"]]
         /\ circuitBreakers' = RequestFailed(circuitBreakers, CircuitKey(r.url))
         /\ streak' = [streak EXCEPT ![r.url] = @ + 1]
         /\ retryStats' = IF workload.stats
                          THEN RetryFailed(retryStats, r.calls) ELSE retryStats

\* retry loop: httpOperation threw error `kind` on attempt r.calls
AfterFailure(p, r, kind) ==
    IF Retryable(kind) /\ r.calls < RetryPolicy.maxAttempts
    THEN /\ \E d \in Delays(RetryPolicy, r.calls + 1) :
               proc' = [proc EXCEPT ![p] =
                          [r EXCEPT !.pc = "delay", !.px = NoProxy,
                                    !.lastError = kind,
                                    !.delays = Append(@, d)]]
         /\ UNCHANGED <<circuitBreakers, streak, retryStats>>
    ELSE \* request(): catch - circuit.recordFailure(), rethrow
         /\ proc' = [proc EXCEPT ![p] =
                       [r EXCEPT !.pc = "done", !.px = NoProxy,
                                 !.lastError = kind,
                                 !.outcome = "RetriesExhausted"]]
         /\ circuitBreakers' = RequestFailed(circuitBreakers, CircuitKey(r.url))
         /\ streak' = [streak EXCEPT ![r.url] = @ + 1]
         /\ retryStats' = IF workload.stats
                          THEN RetryFailed(retryStats, r.calls) ELSE retryStats

\* httpOperation: `await httpUnit.request(httpRequest)` resolves
HttpResolve(p, o) ==
    /\ NoneDone
    /\ proc[p].pc = "http"
    /\ LET r == proc[p] IN
       IF o.kind = "Success"
       THEN \* request(): circuit.recordSuccess(), return retryResult.result
            /\ proc' = [proc EXCEPT ![p] =
                          [r EXCEPT !.pc = "done", !.px = NoProxy,
                                    !.outcome = "Result"]]
            /\ circuitBreakers' = RequestSucceeded(circuitBreakers, CircuitKey(r.url))
            /\ streak' = [streak EXCEPT ![r.url] = 0]
            /\ retryStats' = IF workload.stats
                             THEN RetrySucceeded(retryStats, r.calls)
                             ELSE retryStats
            /\ UNCHANGED failedProxies
       ELSE \* httpOperation: catch - blame the proxy, rethrow to the retry loop
            IF Blames(o, r.px)
            THEN \/ /\ failedProxies' = ProxyFailed(failedProxies, r.px)
                    /\ AfterFailure(p, r, o.kind)
                 \/ \* `await proxy.failed(...)` rejects: its error, not the
                    \* transport's, reaches the retry loop
                    /\ failedProxies' \in {failedProxies,
                                           ProxyFailed(failedProxies, r.px)}
                    /\ \E e \in PoolErrors : AfterFailure(p, r, e)
            ELSE /\ UNCHANGED failedProxies
                 /\ AfterFailure(p, r, o.kind)
    /\ UNCHANGED <<config, props, limiter, workload, budget, admitted>>

\* variant of DelayElapsed: the circuit is asked again before every retry,
\* and the request fails fast when it no longer admits
DelayElapsed_Readmits(p) ==
    /\ NoneDone
    /\ proc[p].pc = "delay"
    /\ LET adm == CanProceed(circuitBreakers[CircuitKey(proc[p].url)]) IN
       /\ circuitBreakers' =
            [circuitBreakers EXCEPT ![CircuitKey(proc[p].url)] = adm.circuit]
       /\ IF CircuitBlocks(adm.ok)
          THEN proc' = [proc EXCEPT ![p] =
                          [@ EXCEPT !.pc = "done", !.outcome = "CircuitOpen"]]
          ELSE \E x \in ProxyGet(failedProxies) :
                  proc' = [proc EXCEPT ![p] = BeginAttempt(@, x)]
    /\ UNCHANGED <<config, props, limiter, failedProxies, workload, budget,
                   admitted, streak, retryStats>>

\* retry loop: the delay before the next attempt has elapsed
DelayElapsed(p) ==
    /\ NoneDone
    /\ proc[p].pc = "delay"
    /\ \E x \in ProxyGet(failedProxies) :
          proc' = [proc EXCEPT ![p] = BeginAttempt(@, x)]
    /\ UNCHANGED <<config, props, circuitBreakers, limiter, failedProxies,
                   workload, budget, admitted, streak, retryStats>>

\* the caller takes the outcome of its request() call
Return(p) ==
    /\ proc[p].pc = "done"
    /\ proc' = [proc EXCEPT ![p] = Idle]
    /\ UNCHANGED <<config, props, circuitBreakers, limiter, failedProxies,
                   workload, budget, admitted, streak, retryStats>>

\* variant of ResetCircuits: only the circuits that are not CLOSED are reset
ResetCircuits_OpenOnly ==
    /\ NoneDone
    /\ circuitBreakers' = [u \in DOMAIN circuitBreakers |->
                              IF circuitBreakers[u].state = "CLOSED"
                              THEN circuitBreakers[u]
                              ELSE ResetCircuit(circuitBreakers[u])]
    /\ streak' = [u \in Urls |-> 0]
    /\ UNCHANGED <<config, props, limiter, failedProxies, proc, workload, budget,
                   admitted, retryStats>>

\* variant of ResetCircuits: the requests in flight are cancelled
ResetCircuits_CancelsInFlight ==
    /\ NoneDone
    /\ circuitBreakers' = [u \in DOMAIN circuitBreakers |->
                              ResetCircuit(circuitBreakers[u])]
    /\ streak' = [u \in Urls |-> 0]
    /\ proc' = [p \in Procs |-> Idle]
    /\ UNCHANGED <<config, props, limiter, failedProxies, workload, budget,
                   admitted, retryStats>>

\* variant of ResetCircuits: the map is emptied and the retry statistics
\* start again
ResetCircuits_ForgetsAll ==
    /\ NoneDone
    /\ circuitBreakers' = <<>>
    /\ streak' = [u \in Urls |-> 0]
    /\ retryStats' = RetryStatsCreate
    /\ UNCHANGED <<config, props, limiter, failedProxies, proc, workload, budget,
                   admitted>>

\* resetCircuits()
ResetCircuits ==
    /\ NoneDone
    /\ circuitBreakers' = [u \in DOMAIN circuitBreakers |->
                              ResetCircuit(circuitBreakers[u])]
    /\ streak' = [u \in Urls |-> 0]
    /\ UNCHANGED <<config, props, limiter, failedProxies, proc, workload, budget,
                   admitted, retryStats>>

\* variant of GetStatsResult: the count is that of the circuits not CLOSED
GetStatsResult_CountsTripped ==
    [circuitBreakerCount |->
         Cardinality({u \in DOMAIN circuitBreakers :
                         circuitBreakers[u].state # "CLOSED"}),
     circuits |-> GetCircuitStats,
     hasRateLimiter |-> props.hasRateLimiter,
     hasProxy |-> props.hasProxy]

\* getStats(), once `await this.getRateLimitStats()` has resolved: what it
\* returns of the circuits
GetStatsResult ==
    [circuitBreakerCount |-> Cardinality(DOMAIN circuitBreakers),
     circuits |-> GetCircuitStats,
     hasRateLimiter |-> props.hasRateLimiter,
     hasProxy |-> props.hasProxy]

\* variant of GetCircuitStatsCall: looks every URL in flight up with
\* getCircuitBreaker(), which tracks what is not tracked yet
GetCircuitStatsCall_Tracks ==
    /\ \E p \in Procs :
          /\ proc[p].pc # "idle"
          /\ circuitBreakers' = GetCircuitBreaker(circuitBreakers, proc[p].url)
    /\ UNCHANGED <<config, props, limiter, failedProxies, proc, workload,
                   budget, admitted, streak, retryStats>>

\* a call of getCircuitStats(), at any point: it iterates over the map and
\* reads each circuit's getStats()
GetCircuitStatsCall == UNCHANGED vars

\* variant of GetStats: reading the limiter's statistics takes a token of
\* every bucket
GetStats_ConsumesBudget ==
    /\ limiter' = [h \in Hosts |-> limiter[h] + 1]
    /\ UNCHANGED <<config, props, circuitBreakers, failedProxies, proc,
                   workload, budget, admitted, streak, retryStats>>

\* a call of getStats(), at any point, from `await this.getRateLimitStats()`
\* to its return: it reads the limiter's, the pool's, the retry unit's and
\* the circuits' statistics
GetStats == UNCHANGED vars

\* variant of Tick: a timer moves an OPEN circuit to HALF_OPEN as soon as the
\* open timeout has passed
Tick_TimerHalfOpens ==
    /\ NoneDone
    /\ circuitBreakers' =
         [u \in DOMAIN circuitBreakers |->
            IF circuitBreakers[u].state = "OPEN"
            THEN [circuitBreakers[u] EXCEPT
                    !.sinceFailure = Min(@ + 1, TimeoutTicks),
                    !.state = IF circuitBreakers[u].sinceFailure + 1 >= TimeoutTicks
                              THEN "HALF_OPEN" ELSE "OPEN"]
            ELSE circuitBreakers[u]]
    /\ limiter' = [h \in Hosts |-> 0]
    /\ admitted' = [h \in Hosts |-> 0]
    /\ UNCHANGED <<config, props, failedProxies, proc, workload, budget, streak,
                   retryStats>>

\* time passes: one tick of the clock the breaker and the limiter read.
\* sinceFailure is the age of lastFailure as canProceed() reads it, which it
\* does in the OPEN state only, up to the open timeout
Tick ==
    /\ NoneDone
    /\ circuitBreakers' =
         [u \in DOMAIN circuitBreakers |->
            [circuitBreakers[u] EXCEPT !.sinceFailure =
                IF circuitBreakers[u].state = "OPEN"
                THEN Min(@ + 1, TimeoutTicks) ELSE @]]
    /\ limiter' = [h \in Hosts |-> 0]
    /\ admitted' = [h \in Hosts |-> 0]
    /\ UNCHANGED <<config, props, failedProxies, proc, workload, budget, streak,
                   retryStats>>

Next ==
    \/ \E p \in Procs : \E url \in Urls : Request(p, url)
    \/ \E p \in Procs : RateLimitResolve(p)
    \/ \E p \in Procs : RateLimitThrows(p)
    \/ \E p \in Procs : \E o \in TransportOutcomes : HttpResolve(p, o)
    \/ \E p \in Procs : DelayElapsed(p)
    \/ \E p \in Procs : Return(p)
    \/ ResetCircuits
    \/ GetCircuitStatsCall
    \/ GetStats
    \/ Tick

Spec == Init /\ [][Next]_vars

SpecProbe == InitProbe /\ [][Next]_vars

SpecStats == InitStats /\ [][Next]_vars

\* every await of a request() call settles: the limiter's check, the
\* transport call (with the pool's get and failed calls around it) and the
\* retry loop's delay; a settled call is handed to its caller
Settles(p) ==
    /\ WF_vars(RateLimitResolve(p) \/ RateLimitThrows(p))
    /\ WF_vars(\E o \in TransportOutcomes : HttpResolve(p, o))
    /\ WF_vars(DelayElapsed(p))
    /\ WF_vars(Return(p))

SpecLive == InitLive /\ [][Next]_vars /\ \A p \in Procs : Settles(p)

-----------------------------------------------------------------------------
(* Properties *)

\* the step in which p's request reaches the circuit admission check
AdmissionStep(p) ==
    /\ proc[p].pc \in {"idle", "rateCheck"}
    /\ proc'[p].pc \notin {"idle", "rateCheck"}
    /\ proc'[p].outcome \notin {"RateLimitExceeded", "LimiterError"}

\* the step in which the limiter answers p's request
RateStep(p) ==
    /\ proc[p].pc = "rateCheck"
    /\ proc'[p].pc # "rateCheck"
    /\ proc'[p].outcome # "LimiterError"

\* the step in which a transport call of p's request fails with error `kind`
AttemptFails(p, kind) == proc[p].pc = "http" /\ proc'[p].lastError = kind

\* C1: for every endpoint URL and configured circuitBreaker.failureThreshold
\* N, the N-th consecutive failed request to the URL (no success in between)
\* leaves the URL's circuit OPEN
C1_OpensAtConfiguredThreshold ==
    [][\A u \in Urls :
          (/\ streak'[u] = streak[u] + 1
           /\ streak'[u] = config.circuitBreaker.failureThreshold)
          => (u \in DOMAIN circuitBreakers' /\ circuitBreakers'[u].state = "OPEN")]_vars

\* C2: with no proxy configured, a request whose admission check finds the
\* circuit OPEN fails at once with the circuit-open error and makes no
\* transport call; with failureThreshold = 2 that is the fate of a request
\* made right after two consecutive failed requests to the same URL
C2_OpenCircuitFailsFast ==
    [][\A p \in Procs :
          (AdmissionStep(p) /\ ~props.hasProxy)
          => LET u == proc'[p].url
                 failsFast == /\ proc'[p].pc = "done"
                              /\ proc'[p].outcome = "CircuitOpen"
                              /\ proc'[p].calls = 0
             IN /\ proc'[p].blocked => failsFast
                /\ (/\ config.circuitBreaker.failureThreshold = 2
                    /\ streak[u] >= 2
                    /\ u \in DOMAIN circuitBreakers
                    /\ circuitBreakers[u].sinceFailure < TimeoutTicks)
                   => failsFast]_vars

\* C3: with a proxy configured, a request to a URL whose circuit is OPEN is
\* not rejected by the circuit: the step that admits it issues its first
\* transport call
C3_ProxyOverridesOpenCircuit ==
    [][\A p \in Procs :
          (/\ AdmissionStep(p)
           /\ props.hasProxy
           /\ proc'[p].url \in DOMAIN circuitBreakers
           /\ circuitBreakers[proc'[p].url].state = "OPEN")
          => (/\ proc'[p].pc = "http"
              /\ proc'[p].calls = 1
              /\ proc'[p].outcome = "none")]_vars

\* a request let through a circuit that is OPEN, its transport call in flight
C3_Witness ==
    \E p \in Procs :
       /\ props.hasProxy
       /\ proc[p].pc = "http"
       /\ proc[p].blocked
       /\ circuitBreakers[proc[p].url].state = "OPEN"

C7_AtMostConfiguredAttempts ==
    \A p \in Procs :
       (proc[p].pc \in {"http", "delay"}
        \/ proc[p].outcome \in {"Result", "RetriesExhausted"})
       => (proc[p].calls >= 1 /\ proc[p].calls <= config.retry.maxAttempts)

\* C8: with retry = {maxAttempts 3, baseDelay 100, backoffFactor 2, no
\* jitter} configured, a request that made three attempts waited 0, 100 and
\* 200 ms before them
C8_ConfiguredBackoffDelays ==
    \A p \in Procs :
       (/\ config.retry.maxAttempts = 3
        /\ config.retry.baseDelay = 100
        /\ config.retry.backoffMultiplier = 2
        /\ ~config.retry.jitter
        /\ proc[p].calls = 3)
       => proc[p].delays = <<0, 100, 200>>

C10_RetryableErrorIsRetried ==
    [][\A p \in Procs :
          (/\ \E kind \in {"ConnectionError", "ProxyAuthError", "ServerError",
                           "RateLimitedUpstream"} : AttemptFails(p, kind)
           /\ proc[p].calls < config.retry.maxAttempts)
          => (proc'[p].pc = "delay" /\ proc'[p].outcome = "none")]_vars

\* the step in which a transport call of p's request resolves
AttemptStep(p) == proc[p].pc = "http" /\ proc'[p].pc # "http"

\* the circuits other than the one of url are the same after the step
OthersUntouched(url) ==
    \A u \in DOMAIN circuitBreakers :
       u # url => (u \in DOMAIN circuitBreakers'
                   /\ circuitBreakers'[u] = circuitBreakers[u])

\* C11: when an attempt of an admitted request succeeds, after any number of
\* retried failures, the request returns the result to its caller and has
\* recorded one success and no failure in its URL's circuit: the attempts
\* that failed before left the circuits alone, the successful one applies one
\* recordSuccess to the URL's circuit
C11_SuccessRecordedOnce ==
    [][\A p \in Procs :
          AttemptStep(p)
          => LET u == proc[p].url IN
             /\ proc'[p].pc = "delay" => circuitBreakers' = circuitBreakers
             /\ proc'[p].lastError = "none"
                => (/\ proc'[p].pc = "done"
                    /\ proc'[p].outcome = "Result"
                    /\ proc'[p].calls <= RetryPolicy.maxAttempts
                    /\ circuitBreakers'[u] = RecordSuccess(circuitBreakers[u])
                    /\ streak'[u] = 0
                    /\ OthersUntouched(u))]_vars

\* a request that returned a result on its second attempt
C11_Witness ==
    \E p \in Procs :
       /\ proc[p].pc = "done"
       /\ proc[p].outcome = "Result"
       /\ proc[p].calls = 2
       /\ circuitBreakers[proc[p].url].state = "CLOSED"
       /\ circuitBreakers[proc[p].url].failures = 0
       /\ circuitBreakers[proc[p].url].successCount = 1

\* C12: when the retry loop of an admitted request gives up (attempts
\* exhausted or a non-retryable error), the request applies one recordFailure
\* to its URL's circuit and fails with the retries-exhausted error around the
\* error of its last attempt
C12_FailureRecordedAndWrapped ==
    [][\A p \in Procs :
          (AttemptStep(p) /\ proc'[p].pc = "done" /\ proc'[p].lastError # "none")
          => LET u == proc[p].url IN
             /\ proc'[p].outcome = "RetriesExhausted"
             /\ \/ ~Retryable(proc'[p].lastError)
                \/ proc'[p].calls = RetryPolicy.maxAttempts
             /\ circuitBreakers'[u] = RecordFailure(circuitBreakers[u])
             /\ circuitBreakers'[u].failures = circuitBreakers[u].failures + 1
             /\ OthersUntouched(u)]_vars

\* a request that failed after using up its attempts, the failure recorded
C12_Witness ==
    \E p \in Procs :
       /\ proc[p].pc = "done"
       /\ proc[p].outcome = "RetriesExhausted"
       /\ proc[p].lastError = "ServerError"
       /\ proc[p].calls = RetryPolicy.maxAttempts
       /\ circuitBreakers[proc[p].url].failures >= 1

\* C13: a request() call ends with a result, the rate-limit error, the
\* circuit-open error or the retries-exhausted error, and with nothing else
C13_FourOutcomes ==
    \A p \in Procs :
       proc[p].pc = "done"
       => proc[p].outcome \in {"Result", "RateLimitExceeded", "CircuitOpen",
                               "RetriesExhausted"}

\* the step in which p's request starts an attempt
AttemptStarts(p) == proc'[p].calls = proc[p].calls + 1

\* C14: with a proxy configured, every attempt calls the pool's get() once
\* before its transport call: a request that made k attempts made k
\* acquisitions, and the transport call of an attempt goes through what
\* get() returned for that attempt
C14_AcquirePerAttempt ==
    [][\A p \in Procs :
          props.hasProxy
          => /\ proc'[p].acquires = proc'[p].calls
             /\ AttemptStarts(p)
                => (/\ proc'[p].acquires = proc[p].acquires + 1
                    /\ proc'[p].pc = "http"
                    /\ proc'[p].px \in ProxyGet(failedProxies))]_vars

\* the third attempt of a request, through the third connection it acquired
C14_Witness ==
    \E p \in Procs :
       /\ props.hasProxy
       /\ proc[p].pc = "http"
       /\ proc[p].calls = 3
       /\ proc[p].acquires = 3
       /\ proc[p].px \in Proxies

\* C15: with a pool of 2 proxies, an attempt through a proxy that fails with
\* a ConnectionError reports that proxy, and no other, as failed in the step
\* of the failure, before the next attempt acquires; and no attempt acquires
\* a proxy that was reported
C15_ConnectionErrorBlamesProxy ==
    [][\A p \in Procs :
          /\ (AttemptFails(p, "ConnectionError") /\ proc[p].px \in Proxies)
             => failedProxies' = failedProxies \cup {proc[p].px}
          /\ (AttemptStarts(p) /\ props.hasProxy)
             => proc'[p].px \notin failedProxies]_vars

\* C16: an attempt that fails with a ClientError, a ServerError or an
\* upstream 429 reports no proxy as failed, whatever its message
C16_ApplicationErrorNeverBlames ==
    [][\A p \in Procs :
          (\E kind \in {"ClientError", "ServerError", "RateLimitedUpstream"} :
              AttemptFails(p, kind))
          => failedProxies' = failedProxies]_vars

C18_CircuitsIndependent ==
    [][\A p \in Procs :
          proc'[p] # proc[p]
          => LET u == IF proc[p].pc = "idle" THEN proc'[p].url ELSE proc[p].url
             IN /\ OthersUntouched(u)
                /\ (/\ AdmissionStep(p)
                    /\ u \in DOMAIN circuitBreakers
                       => circuitBreakers[u].state = "CLOSED")
                   => proc'[p].pc = "http"]_vars

\* a request to one URL in flight while the circuit of the other URL is OPEN
\* and its own is CLOSED and clean
C18_Witness ==
    \E p \in Procs : \E a \in DOMAIN circuitBreakers :
       /\ a # proc[p].url
       /\ circuitBreakers[a].state = "OPEN"
       /\ proc[p].pc = "http"
       /\ circuitBreakers[proc[p].url].state = "CLOSED"
       /\ circuitBreakers[proc[p].url].failures = 0

\* C19: a resetCircuits() step leaves every tracked circuit CLOSED with
\* failure count 0 and success count 0, tracks the same URLs as before, and
\* so leaves an empty map empty
C19_ResetClosesEveryCircuit ==
    [][ResetCircuits
       => /\ DOMAIN circuitBreakers' = DOMAIN circuitBreakers
          /\ \A u \in DOMAIN circuitBreakers' :
                /\ circuitBreakers'[u].state = "CLOSED"
                /\ circuitBreakers'[u].failures = 0
                /\ circuitBreakers'[u].successCount = 0]_vars

\* a tracked circuit as good as new while no request is in flight: the
\* requests that used it are over and it was reset since
C19_Witness ==
    /\ \A p \in Procs : proc[p].pc = "idle"
    /\ \E u \in DOMAIN circuitBreakers :
          circuitBreakers[u] = CircuitBreakerCreate(u)

\* C20: the circuit map gets a key only in the step in which a request to
\* that URL passes rate-limit admission for the first time, with a circuit in
\* the initial CLOSED state; every request past that admission finds its URL
\* tracked, a request to a tracked URL uses the circuit that is there, with
\* its counters; no step removes a key
C20_OneCircuitPerAdmittedUrl ==
    [][/\ DOMAIN circuitBreakers \subseteq DOMAIN circuitBreakers'
       /\ \A u \in DOMAIN circuitBreakers' \ DOMAIN circuitBreakers :
             /\ \E p \in Procs : AdmissionStep(p) /\ proc'[p].url = u
             /\ circuitBreakers'[u] = CircuitBreakerCreate(u)
       /\ \A p \in Procs :
             AdmissionStep(p)
             => LET u == proc'[p].url IN
                /\ u \in DOMAIN circuitBreakers'
                /\ u \in DOMAIN circuitBreakers
                   => /\ circuitBreakers'[u].failures = circuitBreakers[u].failures
                      /\ circuitBreakers'[u].successCount
                           = circuitBreakers[u].successCount]_vars

\* two concurrent requests to one URL on the one circuit an earlier, failed
\* request left behind
C20_Witness ==
    \E p, q \in Procs :
       /\ p # q
       /\ proc[p].url = proc[q].url
       /\ proc[p].pc = "http"
       /\ proc[q].pc = "http"
       /\ DOMAIN circuitBreakers = {proc[p].url}
       /\ circuitBreakers[proc[p].url].failures >= 1

\* C21: getStats() and getCircuitStats() are read-only: a call at any point,
\* also with requests in flight, changes no circuit, no request's attempt
\* record, no rate-limiter budget, no proxy state, and tracks no new URL
C21_StatsAreReadOnly ==
    [][(GetStats \/ GetCircuitStatsCall)
       => /\ circuitBreakers' = circuitBreakers
          /\ DOMAIN circuitBreakers' = DOMAIN circuitBreakers
          /\ limiter' = limiter
          /\ failedProxies' = failedProxies
          /\ proc' = proc]_vars

\* the statistics can be read while one request is at the rate limiter, not
\* yet tracked, and another is at the transport
C21_Witness ==
    \E p, q \in Procs :
       /\ proc[p].pc = "rateCheck"
       /\ proc[q].pc = "http"
       /\ proc[p].url \notin DOMAIN circuitBreakers
       /\ ENABLED GetStats
       /\ ENABLED GetCircuitStatsCall

C23_TeachesFiveCapabilities ==
    /\ Teach.unitId = "network"
    /\ {"request", "getCircuitStats", "resetCircuits", "getStats", "toJson"}
          \subseteq Teach.capabilities

\* C24: while a circuit is HALF_OPEN, a request to its URL that
\* reaches the admission check fails fast with the circuit-open error and
\* makes no transport call, whether or not a proxy is configured
C24_HalfOpenAdmitsOnlyTheProbe ==
    [][\A p \in Procs :
          (/\ AdmissionStep(p)
           /\ proc'[p].url \in DOMAIN circuitBreakers
           /\ circuitBreakers[proc'[p].url].state = "HALF_OPEN")
          => (/\ proc'[p].pc = "done"
              /\ proc'[p].outcome = "CircuitOpen"
              /\ proc'[p].calls = 0)]_vars

\* what the code does of C24: while a circuit is HALF_OPEN, a request to its
\* URL that reaches the admission check fails fast without a transport call
\* and without a change to the circuit when no proxy is configured; with a
\* proxy configured it is let through, as through an OPEN circuit, and the
\* circuit stays HALF_OPEN
C24_HalfOpenAdmitsOnlyTheProbeWithoutProxy ==
    [][\A p \in Procs :
          (/\ AdmissionStep(p)
           /\ proc'[p].url \in DOMAIN circuitBreakers
           /\ circuitBreakers[proc'[p].url].state = "HALF_OPEN")
          => IF props.hasProxy
             THEN /\ proc'[p].pc = "http"
                  /\ proc'[p].blocked
                  /\ proc'[p].calls = 1
                  /\ circuitBreakers'[proc'[p].url].state = "HALF_OPEN"
             ELSE /\ proc'[p].pc = "done"
                  /\ proc'[p].outcome = "CircuitOpen"
                  /\ proc'[p].calls = 0
                  /\ circuitBreakers' = circuitBreakers]_vars

\* no proxy: the probe is at the transport, the circuit is HALF_OPEN, and a
\* second request to the URL has just been turned away
C24_Witness ==
    \E p, q \in Procs :
       /\ ~props.hasProxy
       /\ proc[p].pc = "http"
       /\ ~proc[p].blocked
       /\ proc[q].url = proc[p].url
       /\ circuitBreakers[proc[p].url].state = "HALF_OPEN"
       /\ proc[q].pc = "done"
       /\ proc[q].outcome = "CircuitOpen"
       /\ proc[q].calls = 0

\* C25: no circuit update is lost: in every reachable state the failures a
\* circuit has recorded are the request() calls to its URL that ended in
\* failure since the last success or reset, however the calls were
\* interleaved; so k concurrent calls that all fail add exactly k
C25_NoLostFailure ==
    \A u \in DOMAIN circuitBreakers : circuitBreakers[u].failures = streak[u]

\* the only two calls made so far, both to one URL, overlap: one has just
\* ended in failure and is counted while the other waits between attempts
C25_Witness ==
    \E p, q \in Procs :
       /\ p # q
       /\ budget = workload.requests - 2
       /\ proc[p].pc = "done"
       /\ proc[p].outcome = "RetriesExhausted"
       /\ proc[q].pc = "delay"
       /\ proc[q].url = proc[p].url
       /\ circuitBreakers[proc[p].url].failures = 1

\* C26: an OPEN circuit becomes HALF_OPEN only in the admission check of a
\* request to its URL made when the open timeout has passed since the last
\* recorded failure, and that check admits the request; an admission check
\* made earlier leaves it OPEN; the passing of time alone changes no
\* circuit's state
C26_HalfOpenOnlyOnAdmission ==
    [][/\ \A u \in DOMAIN circuitBreakers :
             (circuitBreakers[u].state = "OPEN"
              /\ circuitBreakers'[u].state = "HALF_OPEN")
             => /\ circuitBreakers[u].sinceFailure >= TimeoutTicks
                /\ \E p \in Procs : /\ AdmissionStep(p)
                                     /\ proc'[p].url = u
                                     /\ proc'[p].pc = "http"
                                     /\ ~proc'[p].blocked
       /\ \A p \in Procs :
             (/\ AdmissionStep(p)
              /\ proc'[p].url \in DOMAIN circuitBreakers
              /\ circuitBreakers[proc'[p].url].state = "OPEN")
             => LET u == proc'[p].url IN
                IF circuitBreakers[u].sinceFailure >= TimeoutTicks
                THEN /\ circuitBreakers'[u].state = "HALF_OPEN"
                     /\ proc'[p].pc = "http"
                     /\ ~proc'[p].blocked
                ELSE circuitBreakers'[u].state = "OPEN"
       /\ Tick => \A u \in DOMAIN circuitBreakers :
                     circuitBreakers'[u].state = circuitBreakers[u].state]_vars

\* the first request after the open timeout has been admitted by its
\* admission check, which left the circuit HALF_OPEN; its first transport
\* call is in flight
C26_Witness ==
    \E p \in Procs :
       /\ proc[p].pc = "http"
       /\ proc[p].calls = 1
       /\ ~proc[p].blocked
       /\ circuitBreakers[proc[p].url].state = "HALF_OPEN"
       /\ circuitBreakers[proc[p].url].sinceFailure >= TimeoutTicks

\* C27: the request that completes on a HALF_OPEN circuit decides it: a
\* success leaves the circuit CLOSED with its counters at zero, a failure
\* leaves it OPEN with the open-timeout clock restarted (no time passed
\* since the last failure)
C27_ProbeOutcomeDecides ==
    [][\A p \in Procs :
          (/\ AttemptStep(p)
           /\ proc'[p].pc = "done"
           /\ circuitBreakers[proc[p].url].state = "HALF_OPEN")
          => LET c == circuitBreakers'[proc[p].url] IN
             IF proc'[p].outcome = "Result"
             THEN /\ c.state = "CLOSED"
                  /\ c.failures = 0
                  /\ c.successCount = 0
             ELSE /\ proc'[p].outcome = "RetriesExhausted"
                  /\ c.state = "OPEN"
                  /\ c.sinceFailure = 0
                  /\ ~CanProceed(c).ok]_vars

\* the probe has just failed: the circuit is OPEN again, the clock restarted
C27_Witness ==
    \E p \in Procs :
       /\ proc[p].pc = "done"
       /\ proc[p].outcome = "RetriesExhausted"
       /\ ~proc[p].blocked
       /\ circuitBreakers[proc[p].url].state = "OPEN"
       /\ circuitBreakers[proc[p].url].failures > DefaultFailureThreshold
       /\ circuitBreakers[proc[p].url].sinceFailure = 0

\* C28: with a proxy configured, when a request that was let through an OPEN
\* circuit succeeds, it records a success on that circuit, which leaves the
\* circuit CLOSED: the admission check of the next request to the URL admits
\* it
C28_LetThroughSuccessCloses ==
    [][\A p \in Procs :
          (/\ AttemptStep(p)
           /\ props.hasProxy
           /\ proc[p].blocked
           /\ proc'[p].outcome = "Result"
           /\ circuitBreakers[proc[p].url].state = "OPEN")
          => LET u == proc[p].url IN
             /\ circuitBreakers'[u] = RecordSuccess(circuitBreakers[u])
             /\ circuitBreakers'[u].state = "CLOSED"
             /\ circuitBreakers'[u].failures = 0
             /\ CanProceed(circuitBreakers'[u]).ok]_vars

\* a single caller behind a proxy: its request was let through the OPEN
\* circuit and has returned a result; the circuit, which had failed before,
\* is CLOSED
C28_Witness ==
    \E p \in Procs :
       /\ props.hasProxy
       /\ workload.callers = {p}
       /\ proc[p].pc = "done"
       /\ proc[p].outcome = "Result"
       /\ proc[p].blocked
       /\ circuitBreakers[proc[p].url].state = "CLOSED"
       /\ circuitBreakers[proc[p].url].successCount = 0
       /\ circuitBreakers[proc[p].url].sinceFailure # NeverFailed

RetryPolicies ==
    {MergeRetryOptions(c.retry, c.retry) : c \in NetworkConfigs} \cup {RetryPolicy}

C31_RetryStatsPerRequest ==
    [][/\ \A p \in Procs :
             (AttemptStep(p) /\ proc'[p].pc = "done")
             => LET ok == proc'[p].outcome = "Result" IN
                /\ GetRetryStats'.totalOperations
                     = GetRetryStats.totalOperations + 1
                /\ GetRetryStats'.successfulOperations
                     = GetRetryStats.successfulOperations + (IF ok THEN 1 ELSE 0)
                /\ GetRetryStats'.failedOperations
                     = GetRetryStats.failedOperations + (IF ok THEN 0 ELSE 1)
                /\ GetRetryStats'.totalRetries
                     = GetRetryStats.totalRetries + (proc'[p].calls - 1)
       /\ (\A p \in Procs : ~(AttemptStep(p) /\ proc'[p].pc = "done"))
          => GetRetryStats' = GetRetryStats
       /\ GetRetryStats'.totalOperations
            = GetRetryStats'.successfulOperations
              + GetRetryStats'.failedOperations]_vars

\* a quiescent state after three requests through the retry loop: one
\* succeeded, two failed, three retries in all
C31_Witness ==
    /\ \A p \in Procs : proc[p].pc = "idle"
    /\ GetRetryStats.totalOperations = 3
    /\ GetRetryStats.successfulOperations = 1
    /\ GetRetryStats.failedOperations = 2
    /\ GetRetryStats.totalRetries = 3

\* C32: proxy blame does not depend on the request's final outcome: an
\* attempt through a proxy that fails with a network or proxy error reports
\* that proxy failed, once, in the step of the failure; no later step takes
\* a report back; and the attempt that succeeds reports nothing and records
\* one success, and no failure, in the circuit
C32_BlameSurvivesLaterSuccess ==
    [][/\ failedProxies \subseteq failedProxies'
       /\ \A p \in Procs :
             /\ ((\E kind \in {"ConnectionError", "ProxyAuthError"} :
                     AttemptFails(p, kind))
                 /\ proc[p].px \in Proxies
                 /\ proc'[p].pc = "delay")
                => /\ failedProxies' = failedProxies \cup {proc[p].px}
                   /\ circuitBreakers' = circuitBreakers
             /\ (AttemptStep(p) /\ proc'[p].outcome = "Result")
                => /\ failedProxies' = failedProxies
                   /\ circuitBreakers'[proc[p].url]
                        = RecordSuccess(circuitBreakers[proc[p].url])]_vars

\* what the code does of C32: the report is made only when the error's
\* message carries one of the markers; made or not, it is never taken back,
\* the retried failure leaves the circuit alone, and the attempt that
\* succeeds reports nothing and records one success
C32_BlameIfMarkedSurvivesLaterSuccess ==
    [][/\ failedProxies \subseteq failedProxies'
       /\ \A p \in Procs :
             /\ (AttemptStep(p) /\ proc'[p].pc = "delay")
                => /\ failedProxies' \in {failedProxies,
                                          failedProxies \cup {proc[p].px}}
                   /\ circuitBreakers' = circuitBreakers
             /\ (AttemptStep(p) /\ proc'[p].outcome = "Result")
                => /\ failedProxies' = failedProxies
                   /\ circuitBreakers'[proc[p].url]
                        = RecordSuccess(circuitBreakers[proc[p].url])]_vars

\* a request that returned a result on its second attempt, through the
\* other proxy: the proxy of its first attempt is reported failed
C32_Witness ==
    \E p \in Procs :
       /\ proc[p].pc = "done"
       /\ proc[p].outcome = "Result"
       /\ proc[p].calls = 2
       /\ Cardinality(failedProxies) = 1
       /\ budget = workload.requests - 1
       /\ circuitBreakers[proc[p].url].failures = 0
       /\ circuitBreakers[proc[p].url].successCount = 1

\* the transport's connection t is the conversion of the pool's connection c
Converted(c, t) ==
    /\ DOMAIN t = DOMAIN c
    /\ t.protocol \in TransportProtocols
    /\ t.protocol = (IF c.protocol = "https" THEN "http" ELSE c.protocol)
    /\ \A f \in DOMAIN c \ {"protocol"} : t[f] = c[f]

C34_EveryRequestCompletes ==
    \A p \in Procs :
       /\ (proc[p].pc \in {"rateCheck", "http", "delay"}) ~> (proc[p].pc = "done")
       /\ [](proc[p].calls <= RetryPolicy.maxAttempts
             /\ Len(proc[p].delays) <= RetryPolicy.maxAttempts)

\* a call that failed after the last attempt the policy allows and two
\* delays
C34_Witness ==
    \E p \in Procs :
       /\ proc[p].pc = "done"
       /\ proc[p].outcome = "RetriesExhausted"
       /\ proc[p].calls = RetryPolicy.maxAttempts
       /\ Len(proc[p].delays) = RetryPolicy.maxAttempts

\* C35: the circuit is asked once per request(), before the first attempt,
\* and not between retry attempts: when a delay has elapsed the next attempt
\* is made whatever the circuit's state, and the step neither reads nor
\* changes a circuit; only the first attempt of a request starts in an
\* admission step
C35_AdmissionOncePerRequest ==
    [][\A p \in Procs :
          /\ (proc[p].pc = "delay" /\ proc'[p] # proc[p])
             => /\ proc'[p].pc = "http"
                /\ proc'[p].calls = proc[p].calls + 1
                /\ proc'[p].blocked = proc[p].blocked
                /\ circuitBreakers' = circuitBreakers
          /\ (AttemptStarts(p) /\ AdmissionStep(p)) => proc'[p].calls = 1
          /\ (AttemptStarts(p) /\ proc'[p].calls > 1)
             => (proc[p].pc = "delay" /\ ~AdmissionStep(p))]_vars

\* no proxy: a request the CLOSED circuit admitted is on its third attempt
\* while the failures of the other caller's requests have opened the circuit
C35_Witness ==
    \E p \in Procs :
       /\ ~props.hasProxy
       /\ proc[p].pc = "http"
       /\ proc[p].calls = 3
       /\ ~proc[p].blocked
       /\ circuitBreakers[proc[p].url].state = "OPEN"
       /\ ~CanProceed(circuitBreakers[proc[p].url]).ok

\* C36: the rate limiter is consulted once per request(), before the
\* circuit, and never for a retry: the limiter's budget is taken only in the
\* step in which the limiter answers a request, one unit of the request's
\* key; a request the limiter admits and the OPEN circuit then rejects has
\* taken its unit; no attempt, delay or return takes any
C36_LimiterOnceBeforeCircuit ==
    [][/\ (\E k \in Hosts : limiter'[k] > limiter[k])
          => \E p \in Procs :
                /\ RateStep(p)
                /\ limiter' = [limiter EXCEPT ![proc[p].key] = @ + 1]
       /\ \A p \in Procs :
             /\ (RateStep(p) /\ proc'[p].outcome = "CircuitOpen")
                => /\ limiter[proc[p].key] < props.rateLimit
                   /\ limiter'[proc[p].key] = limiter[proc[p].key] + 1
                   /\ proc'[p].calls = 0
             /\ (RateStep(p) /\ proc'[p].pc = "http")
                => limiter'[proc[p].key] = limiter[proc[p].key] + 1
             /\ (proc[p].pc \in {"http", "delay", "done"} /\ proc'[p] # proc[p])
                => limiter' = limiter]_vars

\* a request that took the window's one unit for its host and was then
\* rejected by the OPEN circuit, without a transport call
C36_Witness ==
    \E p \in Procs :
       /\ props.hasRateLimiter
       /\ proc[p].pc = "done"
       /\ proc[p].outcome = "CircuitOpen"
       /\ proc[p].calls = 0
       /\ limiter[proc[p].key] = props.rateLimit
       /\ circuitBreakers[proc[p].url].state = "OPEN"

\* C37: a request that passed both admissions records one outcome in its
\* circuit, in the step in which it completes: one recordSuccess or one
\* recordFailure, whatever the number of its attempts, none of which touches
\* a circuit before; a request rejected by the limiter or by the circuit
\* records nothing: the circuits, failure counts and last-failure clocks
\* included, are as before
C37_OneOutcomePerAdmittedRequest ==
    [][\A p \in Procs :
          LET u == proc'[p].url IN
          /\ ((RateStep(p) \/ AdmissionStep(p))
              /\ proc'[p].outcome \in {"RateLimitExceeded", "CircuitOpen"})
             => /\ circuitBreakers' = circuitBreakers
                /\ streak' = streak
                /\ proc'[p].calls = 0
          /\ (AttemptStep(p) /\ proc'[p].pc = "delay")
             => circuitBreakers' = circuitBreakers
          /\ (AttemptStep(p) /\ proc'[p].pc = "done")
             => /\ circuitBreakers'[u] =
                     (IF proc'[p].outcome = "Result"
                      THEN RecordSuccess(circuitBreakers[u])
                      ELSE RecordFailure(circuitBreakers[u]))
                /\ OthersUntouched(u)
          /\ (proc[p].pc = "done" /\ proc'[p].pc = "idle")
             => circuitBreakers' = circuitBreakers]_vars

\* no proxy: a request has just been rejected by the OPEN circuit; the
\* circuit still holds the five failures that opened it and the age of the
\* last of them
C37_Witness ==
    \E p \in Procs :
       /\ ~props.hasProxy
       /\ proc[p].pc = "done"
       /\ proc[p].outcome = "CircuitOpen"
       /\ circuitBreakers[proc[p].url].failures = DefaultFailureThreshold
       /\ streak[proc[p].url] = DefaultFailureThreshold
       /\ circuitBreakers[proc[p].url].sinceFailure = 1

\* C38: the pool's failed() is called only with the connection its get()
\* returned in the same attempt, at most once per attempt and only when
\* that attempt's transport call failed: a connection is held by an attempt
\* in flight only; the pool's failed set changes only in the step in which
\* an attempt holding a connection fails, by that connection; a failing
\* failed() call was made by such an attempt too; a successful attempt
\* reports nothing; and a request has acquired no more often than it has
\* attempted
C38_ReportOnlyOwnFailedAttempt ==
    [][/\ (failedProxies' # failedProxies)
          => \E p \in Procs :
                /\ AttemptStep(p)
                /\ proc[p].px \in Proxies
                /\ proc'[p].lastError # "none"
                /\ failedProxies' = failedProxies \cup {proc[p].px}
       /\ \A p \in Procs :
             /\ (AttemptStep(p) /\ proc'[p].lastError \in PoolErrors)
                => proc[p].px \in Proxies
             /\ (AttemptStep(p) /\ proc'[p].lastError = "none")
                => failedProxies' = failedProxies
             /\ proc'[p].px # NoProxy
                => /\ proc'[p].pc = "http"
                   /\ proc'[p].px \in Proxies
                   /\ proc'[p].acquires >= 1
             /\ proc'[p].acquires <= proc'[p].calls
             /\ failedProxies' \subseteq Proxies]_vars

\* the first attempt of a request acquired a connection and failed; that
\* connection, and nothing else, is reported, and the request waits to retry
C38_Witness ==
    \E p \in Procs :
       /\ proc[p].pc = "delay"
       /\ proc[p].calls = 1
       /\ proc[p].acquires = 1
       /\ proc[p].lastError = "ConnectionError"
       /\ Cardinality(failedProxies) = 1
       /\ budget = workload.requests - 1

\* C39: resetCircuits() changes the state of the circuits only: the tracked
\* keys and the circuitBreakerCount of getStats() are the same after it, and
\* so are the retry statistics, the limiter's budget, the pool's state and
\* the requests in flight
C39_ResetTouchesCircuitsOnly ==
    [][ResetCircuits
       => /\ DOMAIN GetCircuitStats' = DOMAIN GetCircuitStats
          /\ GetStatsResult'.circuitBreakerCount = GetStatsResult.circuitBreakerCount
          /\ GetRetryStats' = GetRetryStats
          /\ limiter' = limiter
          /\ failedProxies' = failedProxies
          /\ proc' = proc]_vars

\* a request to the one URL of the workload has failed, as the retry
\* statistics still tell, and its circuit, still tracked, is as new: it was
\* reset
C39_Witness ==
    \E u \in DOMAIN circuitBreakers :
       /\ workload.targets = {u}
       /\ GetStatsResult.circuitBreakerCount = 1
       /\ GetRetryStats.failedOperations = 2
       /\ GetRetryStats.successfulOperations = 0
       /\ GetRetryStats.totalRetries >= 1
       /\ circuitBreakers[u] = CircuitBreakerCreate(u)

\* C40: resetCircuits() neither cancels nor detaches a request in flight: it
\* leaves every request where it was, the URL of a request past admission
\* stays tracked, and a request that completes, whether or not a reset came
\* since its admission, records its outcome on the circuit the map holds for
\* its URL; so a failure that follows a reset leaves the reset circuit with
\* failure count 1
C40_ResetKeepsRequestsAttached ==
    [][/\ ResetCircuits
          => /\ proc' = proc
             /\ \A p \in Procs :
                   proc[p].pc \in {"http", "delay"}
                   => /\ CircuitKey(proc[p].url) \in DOMAIN circuitBreakers'
                      /\ circuitBreakers'[CircuitKey(proc[p].url)].failures = 0
       /\ \A p \in Procs :
             (AttemptStep(p) /\ proc'[p].pc = "done")
             => LET u == CircuitKey(proc[p].url) IN
                /\ u \in DOMAIN circuitBreakers
                /\ circuitBreakers'[u] =
                      IF proc'[p].outcome = "Result"
                      THEN RecordSuccess(circuitBreakers[u])
                      ELSE RecordFailure(circuitBreakers[u])]_vars

\* the only caller's request was let through an OPEN circuit to use the
\* proxy and has just failed, and its circuit is CLOSED with one failure: the
\* circuit was reset while the request was in flight
C40_Witness ==
    \E p \in Procs :
       /\ workload.callers = {p}
       /\ proc[p].pc = "done"
       /\ proc[p].blocked
       /\ proc[p].outcome = "RetriesExhausted"
       /\ circuitBreakers[CircuitKey(proc[p].url)].state = "CLOSED"
       /\ circuitBreakers[CircuitKey(proc[p].url)].failures = 1

====
